---- MODULE Spec2Model ----
(***************************************************************************)
(* Model of the large-file translator backend (src/ui/backend/app):        *)
(*   - main.py        chunked upload (upload_init / upload_chunk /         *)
(*                    upload_complete), jobs_start, jobs_get, jobs_download*)
(*   - jobs.py        JobStore: the lock-guarded job registry              *)
(*   - process.py     start_translation_job: the background worker         *)
(*   - translator.py  _split_text and translate_file_to_docx               *)
(*   - readers.py     extract_text                                         *)
(*   - word.py        write_docx                                           *)
(*                                                                         *)
(* The specifications share the variables:                                 *)
(*   SpecSplit   _split_text run one loop iteration at a time on every     *)
(*               text and max_chars within the bounds;                     *)
(*   SpecUpload  the upload handlers and jobs_start on the file system;    *)
(*   SpecUploadIO  SpecUpload plus an I/O error while a part is copied;    *)
(*   SpecUploadPaths  upload_init and upload_chunk with upload ids that    *)
(*               name a directory other than a session's;                  *)
(*   Spec        the job registry, the worker threads and the pipeline;    *)
(*   SpecLive    the worker threads under a fair scheduler, with           *)
(*               CHUNK_CHARS from -1 upwards;                              *)
(*   SpecStore   the methods of JobStore statement by statement under      *)
(*               the lock.                                                 *)
(***************************************************************************)
EXTENDS Integers, Sequences, FiniteSets, TLC

VARIABLES
    \* ---- translator.py: _split_text, one call ----
    sText,      \* argument text
    sMax,       \* argument max_chars
    sStart,     \* local start
    sChunks,    \* local chunks
    sPc,        \* "loop" while the while-loop runs, "returned" after return
    \* ---- main.py: the data directory and the HTTP surface ----
    chunkDirs,  \* CHUNK_DIR: upload_id -> [meta, parts] for each directory
    uploads,    \* UPLOAD_DIR: stored file name -> bytes
    issued,     \* upload ids uuid4 has handed out
    received,   \* history: upload_id -> (index -> last payload sent by the client)
    failed,     \* history: upload ids for which upload_complete answered 400
    resp,       \* the last HTTP response
    \* ---- jobs.py / process.py / translator.py ----
    jobs,       \* JobStore._jobs: job_id -> Job
    worker,     \* job_id -> the locals of the thread running run()
    outputs,    \* OUTPUT_DIR: file name -> text written by write_docx
    env,        \* os.environ: CHUNK_CHARS and OPENAI_API_KEY
    \* ---- jobs.py: JobStore method by method ----
    lock,       \* JobStore._lock: "free" or the thread that holds it
    call        \* thread -> the locals of the JobStore method it is in

splitVars  == <<sText, sMax, sStart, sChunks, sPc>>
uploadVars == <<chunkDirs, uploads, issued, received, failed, resp>>
jobVars    == <<jobs, worker, outputs, env>>
storeVars  == <<lock, call>>
vars       == <<sText, sMax, sStart, sChunks, sPc,
                chunkDirs, uploads, issued, received, failed, resp,
                jobs, worker, outputs, env, lock, call>>

----------------------------------------------------------------------------
(* Bounds *)

MaxLen   == 6   \* longest text handed to _split_text in SpecSplit
MaxChars == 6   \* largest max_chars handed to _split_text in SpecSplit
MaxTotal == 3   \* largest total_chunks of an upload; indices are 0..MaxTotal-1
SmallChunkChars == 40   \* the CHUNK_CHARS that splits the texts of Spec
MaxLiveLen == 3     \* longest uploaded text in SpecLive
MaxLiveChars == 2   \* largest CHUNK_CHARS in SpecLive; the smallest is -1
MaxLiveJobs == 1    \* jobs started in SpecLive

(* Program constants *)

DefaultChunkChars == 8000   \* translator.py:9 and :69, the default chunk size
PartDigits == 8             \* main.py:57 and :82, the width of {index:08d}

----------------------------------------------------------------------------
(* Generic helpers *)

Min(a, b) == IF a < b THEN a ELSE b
Max(a, b) == IF a > b THEN a ELSE b

RECURSIVE Concat(_)
\* ''.join(seqs): the elements of a sequence of sequences, in order
Concat(seqs) ==
    IF seqs = <<>> THEN <<>> ELSE Head(seqs) \o Concat(Tail(seqs))

SeqsUpTo(S, n) == UNION {[1..k -> S] : k \in 0..n}

----------------------------------------------------------------------------
(* Python string primitives used by _split_text.  Texts are sequences of   *)
(* one-character strings; positions are 0-based as in Python.              *)

NL     == "\n"
Period == "."
Space  == " "
Chars  == {"a", NL, Period, Space}

\* slice.indices(): a slice bound clamped into 0..n, negative bounds counted
\* from the end
SliceBound(i, n) ==
    IF i < 0 THEN Max(i + n, 0) ELSE Min(i, n)

\* text[start:end]
Slice(text, start, end) ==
    LET s == SliceBound(start, Len(text))
        e == SliceBound(end, Len(text))
    IN  IF s >= e THEN <<>> ELSE SubSeq(text, s + 1, e)

\* text.rfind(sub, start, end): the highest index k with
\* text[k:k+len(sub)] = sub lying wholly inside text[start:end], else -1
RFind(text, sub, start, end) ==
    LET s == SliceBound(start, Len(text))
        e == SliceBound(end, Len(text))
        hits == {k \in s..(e - Len(sub)) : SubSeq(text, k + 1, k + Len(sub)) = sub}
    IN  IF hits = {} THEN -1 ELSE CHOOSE k \in hits : \A h \in hits : h <= k

\* int(max_chars * 0.5): the float product truncated toward zero
HalfWindow(max_chars) ==
    IF max_chars >= 0 THEN max_chars \div 2 ELSE -((-max_chars) \div 2)

----------------------------------------------------------------------------
(* translator.py: _split_text *)

\* Mutant: the cut lands one past the boundary character.
SplitEnd_PastBoundary(text, start, max_chars) ==
    LET end0 == Min(Len(text), start + max_chars)
        nl   == RFind(text, <<NL>>, start, end0)
        cut  == IF nl = -1 THEN RFind(text, <<Period, Space>>, start, end0) ELSE nl
    IN  IF cut # -1 /\ cut > start + HalfWindow(max_chars) THEN cut + 2 ELSE end0

\* Lines 14-20: the end of the chunk that begins at start.
SplitEnd(text, start, max_chars) ==
    LET end0 == Min(Len(text), start + max_chars)
        nl   == RFind(text, <<NL>>, start, end0)
        cut  == IF nl = -1 THEN RFind(text, <<Period, Space>>, start, end0) ELSE nl
    IN  IF cut # -1 /\ cut > start + HalfWindow(max_chars) THEN cut + 1 ELSE end0

\* Mutant: a chunk that ends at a boundary loses the boundary character.
SplitChunk_DropBoundary(text, start, max_chars) ==
    LET end == SplitEnd(text, start, max_chars)
    IN  IF end < Min(Len(text), start + max_chars)
        THEN Slice(text, start, end - 1)
        ELSE Slice(text, start, end)

\* Line 21: the chunk appended for the window that begins at start.
SplitChunk(text, start, max_chars) ==
    Slice(text, start, SplitEnd(text, start, max_chars))

\* The call _split_text(text, max_chars): start = 0, chunks = [].
SplitCall(text, max_chars) ==
    /\ sText = text
    /\ sMax = max_chars
    /\ sStart = 0
    /\ sChunks = <<>>
    /\ sPc = "loop"

\* One iteration of the while-loop, lines 13-22.
SplitLoop ==
    /\ sPc = "loop"
    /\ sStart < Len(sText)
    /\ sChunks' = Append(sChunks, SplitChunk(sText, sStart, sMax))
    /\ sStart' = SplitEnd(sText, sStart, sMax)
    /\ UNCHANGED <<sText, sMax, sPc>>

\* Mutant: a split that cut nothing returns one empty chunk.
SplitReturn_OneEmpty ==
    /\ sPc = "loop"
    /\ ~(sStart < Len(sText))
    /\ sPc' = "returned"
    /\ sChunks' = IF sChunks = <<>> THEN << <<>> >> ELSE sChunks
    /\ UNCHANGED <<sText, sMax, sStart>>

\* The loop test fails: line 23, return chunks.
SplitReturn ==
    /\ sPc = "loop"
    /\ ~(sStart < Len(sText))
    /\ sPc' = "returned"
    /\ UNCHANGED <<sText, sMax, sStart, sChunks>>

----------------------------------------------------------------------------
(* main.py: the chunked upload.  A file name is [dir, stem, ext]: the      *)
(* directory components before the last "/", and the last component cut at *)
(* its last dot.  Bytes are one-character strings.                         *)

UploadIds == {"u1"}             \* the values uuid.uuid4().hex takes
ClientIds == {"u1", "u2"}       \* the upload_id form values clients send
Payloads  == {<<>>, <<"a">>, <<"b", "c">>}    \* chunk bodies clients send

Indices == 0..(MaxTotal - 1)
Totals  == 0..MaxTotal

BlankName == [dir |-> <<>>, stem |-> " ", ext |-> ""]
Filenames ==
    { [dir |-> <<"tmp">>, stem |-> "doc", ext |-> ".txt"],
      BlankName }

\* str.strip() of the meta text: a whitespace-only name becomes empty
Strip(filename) ==
    IF filename = BlankName THEN [dir |-> <<>>, stem |-> "", ext |-> ""] ELSE filename

IsEmptyName(filename) == filename.dir = <<>> /\ filename.stem = "" /\ filename.ext = ""

\* Path(filename).name: the last path component
PathName(filename) == [filename EXCEPT !.dir = <<>>]

\* f'{index:08d}.part' for 0 <= index < 10^8: the decimal digits, zero-padded
PartName(index) ==
    [k \in 1..PartDigits |-> (index \div (10 ^ (PartDigits - k))) % 10]

\* Line 76: the stored meta text, stripped, or f'{upload_id}.bin'
MetaFilename(upload_id) ==
    LET stripped == Strip(chunkDirs[upload_id].meta)
    IN  IF IsEmptyName(stripped)
        THEN [dir |-> <<>>, stem |-> upload_id, ext |-> ".bin"]
        ELSE stripped

\* Lines 77-78: f'{upload_id}_{safe_name}' in UPLOAD_DIR
FinalName(upload_id) ==
    [id |-> upload_id, name |-> PathName(MetaFilename(upload_id))]

\* Line 83: the indices of range(total_chunks) whose part file does not exist
MissingParts(upload_id, total_chunks) ==
    {i \in 0..(total_chunks - 1) : PartName(i) \notin DOMAIN chunkDirs[upload_id].parts}

\* Lines 81-84 run i upwards and raise at the first missing part
SetMin(S) == CHOOSE m \in S : \A x \in S : m <= x

RECURSIVE CopiedParts_Reversed(_, _)
\* Mutant: the parts are copied highest index first.
CopiedParts_Reversed(upload_id, k) ==
    IF k <= 0 THEN <<>>
    ELSE chunkDirs[upload_id].parts[PartName(k - 1)] \o CopiedParts_Reversed(upload_id, k - 1)

RECURSIVE CopiedParts(_, _)
\* Lines 81-86: what the loop has written to out after copying parts 0..k-1
CopiedParts(upload_id, k) ==
    IF k <= 0 THEN <<>>
    ELSE CopiedParts(upload_id, k - 1) \o chunkDirs[upload_id].parts[PartName(k - 1)]

\* Mutant: the final file is opened for appending and keeps what an
\* earlier call wrote.
OpenedFinal_Append(upload_id) ==
    IF FinalName(upload_id) \in DOMAIN uploads THEN uploads[FinalName(upload_id)] ELSE <<>>

\* Line 80: final_path.open('wb') creates the file or truncates it
OpenedFinal(upload_id) == <<>>

Response(op, code, arg, out) == [op |-> op, code |-> code, arg |-> arg, out |-> out]

\* upload_init, lines 40-45
UploadInit(filename) ==
    \E upload_id \in UploadIds \ issued :
        /\ issued' = issued \cup {upload_id}
        /\ chunkDirs' = (upload_id :> [meta |-> filename, parts |-> <<>>]) @@ chunkDirs
        /\ received' = (upload_id :> <<>>) @@ received
        /\ resp' = Response("upload_init", 200, filename, upload_id)
        /\ UNCHANGED <<uploads, failed>>

\* upload_chunk, lines 53-55: the directory does not exist
UploadChunkNotFound(upload_id, index, payload) ==
    /\ upload_id \notin DOMAIN chunkDirs
    /\ resp' = Response("upload_chunk", 404, upload_id, "upload_id not found")
    /\ UNCHANGED <<chunkDirs, uploads, issued, received, failed>>

\* Mutant: the part file is opened for appending, so a second body for the
\* same index is added to the first.
UploadChunk_Append(upload_id, index, payload) ==
    /\ upload_id \in DOMAIN chunkDirs
    /\ chunkDirs' = [chunkDirs EXCEPT ![upload_id].parts =
                        (PartName(index) :>
                            (IF PartName(index) \in DOMAIN @ THEN @[PartName(index)] ELSE <<>>)
                            \o payload) @@ @]
    /\ received' = [received EXCEPT ![upload_id] = (index :> payload) @@ @]
    /\ resp' = Response("upload_chunk", 200, upload_id, "ok")
    /\ UNCHANGED <<uploads, issued, failed>>

\* upload_chunk, lines 57-65: the part file is opened 'wb' and the body written
UploadChunk(upload_id, index, payload) ==
    /\ upload_id \in DOMAIN chunkDirs
    /\ chunkDirs' = [chunkDirs EXCEPT ![upload_id].parts =
                        (PartName(index) :> payload) @@ @]
    /\ received' = [received EXCEPT ![upload_id] = (index :> payload) @@ @]
    /\ resp' = Response("upload_chunk", 200, upload_id, "ok")
    /\ UNCHANGED <<uploads, issued, failed>>

\* upload_complete, lines 72-74: the directory does not exist
UploadCompleteNotFound(upload_id, total_chunks) ==
    /\ upload_id \notin DOMAIN chunkDirs
    /\ resp' = Response("upload_complete", 404, <<upload_id, total_chunks>>,
                        "upload_id not found")
    /\ UNCHANGED <<chunkDirs, uploads, issued, received, failed>>

\* Mutant: the handler collects the missing indices and names the last one.
UploadCompleteMissing_NamesLast(upload_id, total_chunks) ==
    /\ upload_id \in DOMAIN chunkDirs
    /\ MissingParts(upload_id, total_chunks) # {}
    /\ LET i == SetMin(MissingParts(upload_id, total_chunks))
           last == CHOOSE m \in MissingParts(upload_id, total_chunks) :
                      \A x \in MissingParts(upload_id, total_chunks) : x <= m
       IN  /\ uploads' = (FinalName(upload_id) :>
                            OpenedFinal(upload_id) \o CopiedParts(upload_id, i)) @@ uploads
           /\ resp' = Response("upload_complete", 400, <<upload_id, total_chunks>>, last)
    /\ failed' = failed \cup {upload_id}
    /\ UNCHANGED <<chunkDirs, issued, received>>

\* upload_complete, lines 80-84: final_path is opened 'wb', the parts before
\* the first missing one are copied, then HTTPException(400) leaves the with
\* block; rmtree is not reached
UploadCompleteMissing(upload_id, total_chunks) ==
    /\ upload_id \in DOMAIN chunkDirs
    /\ MissingParts(upload_id, total_chunks) # {}
    /\ LET i == SetMin(MissingParts(upload_id, total_chunks))
       IN  /\ uploads' = (FinalName(upload_id) :>
                            OpenedFinal(upload_id) \o CopiedParts(upload_id, i)) @@ uploads
           /\ resp' = Response("upload_complete", 400, <<upload_id, total_chunks>>, i)
    /\ failed' = failed \cup {upload_id}
    /\ UNCHANGED <<chunkDirs, issued, received>>

\* Mutant: the handler copies every part file the directory holds, in index
\* order, those past total_chunks too.
UploadCompleteOk_CopiesAll(upload_id, total_chunks) ==
    /\ upload_id \in DOMAIN chunkDirs
    /\ MissingParts(upload_id, total_chunks) = {}
    /\ uploads' = (FinalName(upload_id) :>
                     OpenedFinal(upload_id)
                     \o Concat([k \in 1..MaxTotal |->
                                 IF PartName(k - 1) \in DOMAIN chunkDirs[upload_id].parts
                                 THEN chunkDirs[upload_id].parts[PartName(k - 1)]
                                 ELSE <<>>])) @@ uploads
    /\ chunkDirs' = [u \in DOMAIN chunkDirs \ {upload_id} |-> chunkDirs[u]]
    /\ resp' = Response("upload_complete", 200, <<upload_id, total_chunks>>,
                        FinalName(upload_id))
    /\ UNCHANGED <<issued, received, failed>>

\* Mutant: the handler returns the stored name and keeps the chunk directory.
UploadCompleteOk_KeepsDir(upload_id, total_chunks) ==
    /\ upload_id \in DOMAIN chunkDirs
    /\ MissingParts(upload_id, total_chunks) = {}
    /\ uploads' = (FinalName(upload_id) :>
                     OpenedFinal(upload_id) \o CopiedParts(upload_id, total_chunks)) @@ uploads
    /\ resp' = Response("upload_complete", 200, <<upload_id, total_chunks>>,
                        FinalName(upload_id))
    /\ UNCHANGED <<chunkDirs, issued, received, failed>>

\* upload_complete, lines 80-89: every part exists and is copied, the chunk
\* directory is removed and the stored name returned
UploadCompleteOk(upload_id, total_chunks) ==
    /\ upload_id \in DOMAIN chunkDirs
    /\ MissingParts(upload_id, total_chunks) = {}
    /\ uploads' = (FinalName(upload_id) :>
                     OpenedFinal(upload_id) \o CopiedParts(upload_id, total_chunks)) @@ uploads
    /\ chunkDirs' = [u \in DOMAIN chunkDirs \ {upload_id} |-> chunkDirs[u]]
    /\ resp' = Response("upload_complete", 200, <<upload_id, total_chunks>>,
                        FinalName(upload_id))
    /\ UNCHANGED <<issued, received, failed>>

\* upload_complete, line 86: shutil.copyfileobj raises OSError while part i is
\* copied, after `written` bytes of it; the exception leaves the handler
\* (HTTP 500) and line 88 is not reached
UploadCompleteIOError(upload_id, total_chunks) ==
    /\ upload_id \in DOMAIN chunkDirs
    /\ \E i \in 0..(total_chunks - 1) :
          /\ \A k \in 0..i : k \notin MissingParts(upload_id, total_chunks)
          /\ \E written \in 0..Len(chunkDirs[upload_id].parts[PartName(i)]) :
                uploads' = (FinalName(upload_id) :>
                              OpenedFinal(upload_id) \o CopiedParts(upload_id, i) \o
                              SubSeq(chunkDirs[upload_id].parts[PartName(i)], 1, written))
                           @@ uploads
          /\ resp' = Response("upload_complete", 500, <<upload_id, total_chunks>>, i)
    /\ UNCHANGED <<chunkDirs, issued, received, failed>>

----------------------------------------------------------------------------
(* jobs.py: JobStore.  Every method body runs under self._lock, so each is *)
(* one atomic step.  progress is a float; the values the code computes are *)
(* i/total, 0.01, 0.95, 0.0 and 1.0, kept here as reduced fractions <<n, d>>. *)

JobIds      == {"j1", "j2"}     \* the values uuid.uuid4().hex takes
SourceLangs == {"None"}         \* source_lang: Optional[str]
TargetLangs == {"ko"}

RECURSIVE Gcd(_, _)
Gcd(a, b) == IF b = 0 THEN a ELSE Gcd(b, a % b)

\* the float n / d, d > 0
Frac(n, d) == <<n \div Gcd(n, d), d \div Gcd(n, d)>>

Leq(p, q)  == p[1] * q[2] <= q[1] * p[2]
Less(p, q) == p[1] * q[2] < q[1] * p[2]

Zero     == Frac(0, 1)
One      == Frac(1, 1)
Starting == Frac(1, 100)     \* process.py:17  progress=0.01
Writing  == Frac(95, 100)    \* translator.py:87  progress_cb(0.95, ...)

NoPath == <<>>               \* output_path = None

\* Mutant: one output path for every job.
OutputPathFor_Shared(job_id) == <<"out", ".docx">>

\* JobStore.output_path_for: output_dir / f'{job_id}.docx'
OutputPathFor(job_id) == <<job_id, ".docx">>

\* JobStore.create, lines 29-37: the Job it stores
NewJob(job_id, file_path, target_lang, source_lang) ==
    [ job_id      |-> job_id,
      status      |-> "queued",
      progress    |-> Zero,
      message     |-> <<"Queued">>,
      file_path   |-> file_path,
      source_lang |-> source_lang,
      target_lang |-> target_lang,
      output_path |-> NoPath ]

\* Mutant: get hands out the stored Job itself instead of asdict(job).
StoreGet_Live(job_id) == IF job_id \in DOMAIN jobs THEN [live |-> job_id] ELSE [job_id |-> "None"]

\* JobStore.get, lines 43-45: asdict(job), a copy, or None
NoJob == [job_id |-> "None"]
StoreGet(job_id) == IF job_id \in DOMAIN jobs THEN jobs[job_id] ELSE NoJob

\* Mutant: update sets the fields on every stored job.
StoreUpdate_All(job_id, fields) ==
    IF job_id \notin DOMAIN jobs THEN jobs
    ELSE [j \in DOMAIN jobs |->
            [k \in DOMAIN jobs[j] |->
                IF k \in DOMAIN fields THEN fields[k] ELSE jobs[j][k]]]

\* JobStore.update, lines 48-54: the registry after update(job_id, **fields)
StoreUpdate(job_id, fields) ==
    IF job_id \notin DOMAIN jobs THEN jobs
    ELSE [jobs EXCEPT ![job_id] =
            [k \in DOMAIN jobs[job_id] |->
                IF k \in DOMAIN fields THEN fields[k] ELSE jobs[job_id][k]]]

----------------------------------------------------------------------------
(* readers.py, word.py and the translation back ends *)

SupportedText == {".txt", ".md", ".csv", ".srt", ".log"}

\* str.lower() on the suffixes that occur
Lower(ext) == IF ext = ".TXT" THEN ".txt" ELSE ext

\* readers.py:27, character by character, for the suffix ".xyz"
UnsupportedMessage ==
    << "[","U","n","s","u","p","p","o","r","t","e","d"," ","f","i","l","e"," ",
       "t","y","p","e",":"," ",".","x","y","z","."," ","P","l","e","a","s","e",
       " ","u","p","l","o","a","d"," ","a"," ",".","t","x","t"," ","o","r"," ",
       ".","d","o","c","x"," ","f","i","l","e",".","]" >>

\* read_text(encoding='utf-8'), and on UnicodeDecodeError cp949 with
\* errors='replace': ASCII bytes decode to themselves, the byte "xFF" is
\* invalid in both and comes out as U+FFFD
Decode(bytes) == [k \in 1..Len(bytes) |-> IF bytes[k] = "xFF" THEN "uFFFD" ELSE bytes[k]]

\* What python-docx can make of a .docx upload: the paragraphs joined by
\* newlines, or an exception when the bytes are no Word package
DocxTexts == {<<"a">>}

\* extract_text, lines 5-27: the outcomes [raised, text] for a stored file
ExtractOutcomes(file_path) ==
    LET ext == Lower(file_path.name.ext)
    IN  IF file_path \notin DOMAIN uploads
        THEN {[raised |-> TRUE, text |-> <<>>]}
        ELSE IF ext \in SupportedText
        THEN {[raised |-> FALSE, text |-> Decode(uploads[file_path])]}
        ELSE IF ext = ".docx"
        THEN {[raised |-> TRUE, text |-> <<>>]}
             \cup {[raised |-> FALSE, text |-> t] : t \in DocxTexts}
        ELSE {[raised |-> FALSE, text |-> UnsupportedMessage]}

\* translator.py:56  the header line of _translate_fallback, kept as one
\* newline-free token
FallbackHeader(target_lang) == <<"[Translation disabled: set OPENAI_API_KEY to translate to ", target_lang, "]">>

\* str.strip() of a translated text: leading and trailing whitespace removed
RECURSIVE LStrip(_)
LStrip(t) == IF t # <<>> /\ Head(t) \in {NL, Space} THEN LStrip(Tail(t)) ELSE t
RECURSIVE RStrip(_)
RStrip(t) ==
    IF t # <<>> /\ t[Len(t)] \in {NL, Space} THEN RStrip(SubSeq(t, 1, Len(t) - 1)) ELSE t
StripText(t) == RStrip(LStrip(t))

\* What the remote model can answer for a chunk
ModelAnswers == {<<"T">>, <<"T", NL>>}

\* translator.py:79-82: the outcomes [raised, out] of translating one chunk
TranslateOutcomes(chunk, target_lang) ==
    IF env.OPENAI_API_KEY
    THEN {[raised |-> TRUE, out |-> <<>>]}
         \cup {[raised |-> FALSE, out |-> StripText(a)] : a \in ModelAnswers}
    ELSE {[raised |-> FALSE, out |-> FallbackHeader(target_lang) \o <<NL, NL>> \o chunk]}

RECURSIVE JoinLines_Trailing(_)
\* Mutant: every part is followed by a newline, the last one too.
JoinLines_Trailing(parts) ==
    IF parts = <<>> THEN <<>>
    ELSE parts[1] \o <<NL>> \o JoinLines_Trailing(Tail(parts))

RECURSIVE JoinLines(_)
\* '\n'.join(parts)
JoinLines(parts) ==
    IF parts = <<>> THEN <<>>
    ELSE IF Len(parts) = 1 THEN parts[1]
    ELSE parts[1] \o <<NL>> \o JoinLines(Tail(parts))

\* str.splitlines(): the lines without their newline; no empty last line.
\* Line m runs from after the (m-1)-th newline to before the m-th one, the
\* last line to the end of the text.
SplitLines(t) ==
    LET nls     == {k \in 1..Len(t) : t[k] = NL}
        Nth(m)  == CHOOSE k \in nls : Cardinality({x \in nls : x <= k}) = m
        count   == Cardinality(nls) + (IF t # <<>> /\ t[Len(t)] # NL THEN 1 ELSE 0)
    IN  [m \in 1..count |->
            SubSeq(t, IF m = 1 THEN 1 ELSE Nth(m - 1) + 1,
                      IF m <= Cardinality(nls) THEN Nth(m) - 1 ELSE Len(t))]

----------------------------------------------------------------------------
(* process.py: start_translation_job.run, one thread per job, and          *)
(* translator.py: translate_file_to_docx, which it calls.  worker[j].pc    *)
(* is the statement the thread executes next.                              *)

ThreadStart ==
    [ pc |-> "get", job |-> NoJob, text |-> <<>>, start |-> 0, chunks |-> <<>>,
      total |-> 0, i |-> 0, translated_parts |-> <<>>, full |-> <<>> ]

\* on_progress, process.py:20-21: max(0.0, min(1.0, p))
Clamp(p) == IF Less(p, Zero) THEN Zero ELSE IF Less(One, p) THEN One ELSE p

OnProgress(job_id, p, msg) ==
    StoreUpdate(job_id, [progress |-> Clamp(p), message |-> msg])

\* process.py:13-15
RunGet(j) ==
    /\ worker[j].pc = "get"
    /\ worker' = [worker EXCEPT ![j].job = StoreGet(j),
                                ![j].pc = IF StoreGet(j) = NoJob THEN "returned"
                                          ELSE "update_running"]
    /\ UNCHANGED <<jobs, outputs>>

\* Mutant: the thread reports the first chunk's progress without the
\* status change of line 17.
RunningFields_NoStatus ==
    [progress |-> Starting, message |-> <<"Starting">>]

\* process.py:17  the fields of the update on entering the try block
RunningFields ==
    [status |-> "running", progress |-> Starting, message |-> <<"Starting">>]

\* process.py:17-18
RunUpdateRunning(j) ==
    /\ worker[j].pc = "update_running"
    /\ jobs' = StoreUpdate(j, RunningFields)
    /\ worker' = [worker EXCEPT ![j].pc = "extract"]
    /\ UNCHANGED outputs

\* translator.py:67  extract_text returns
PipeExtract(j) ==
    /\ worker[j].pc = "extract"
    /\ \E o \in ExtractOutcomes(worker[j].job.file_path) :
          /\ ~o.raised
          /\ worker' = [worker EXCEPT ![j].text = o.text, ![j].pc = "split"]
    /\ UNCHANGED <<jobs, outputs>>

\* translator.py:67  extract_text raises
PipeExtractRaise(j) ==
    /\ worker[j].pc = "extract"
    /\ \E o \in ExtractOutcomes(worker[j].job.file_path) : o.raised
    /\ worker' = [worker EXCEPT ![j].pc = "except"]
    /\ UNCHANGED <<jobs, outputs>>

\* translator.py:69  one iteration of the loop of _split_text
PipeSplitLoop(j) ==
    /\ worker[j].pc = "split"
    /\ worker[j].start < Len(worker[j].text)
    /\ worker' = [worker EXCEPT
          ![j].chunks = Append(@, SplitChunk(worker[j].text, worker[j].start, env.CHUNK_CHARS)),
          ![j].start = SplitEnd(worker[j].text, worker[j].start, env.CHUNK_CHARS)]
    /\ UNCHANGED <<jobs, outputs>>

\* translator.py:69-73  _split_text returns; total = max(1, len(chunks))
PipeSplitReturn(j) ==
    /\ worker[j].pc = "split"
    /\ ~(worker[j].start < Len(worker[j].text))
    /\ worker' = [worker EXCEPT ![j].total = Max(1, Len(worker[j].chunks)),
                                ![j].i = 0,
                                ![j].pc = "for"]
    /\ UNCHANGED <<jobs, outputs>>

\* Mutant: the report before a chunk's call counts that chunk as finished.
PipeChunkProgress_Finished(j) ==
    /\ worker[j].pc = "for"
    /\ worker[j].i < Len(worker[j].chunks)
    /\ jobs' = OnProgress(j, Frac(worker[j].i + 1, worker[j].total),
                          <<"Translating chunk", worker[j].i + 1, worker[j].total>>)
    /\ worker' = [worker EXCEPT ![j].pc = "translate"]
    /\ UNCHANGED outputs

\* translator.py:75-77  the next chunk: progress_cb(i / total, ...)
PipeChunkProgress(j) ==
    /\ worker[j].pc = "for"
    /\ worker[j].i < Len(worker[j].chunks)
    /\ jobs' = OnProgress(j, Frac(worker[j].i, worker[j].total),
                          <<"Translating chunk", worker[j].i + 1, worker[j].total>>)
    /\ worker' = [worker EXCEPT ![j].pc = "translate"]
    /\ UNCHANGED outputs

\* Mutant: the translated part is put in front of the parts collected so far.
PipeTranslate_Prepend(j) ==
    /\ worker[j].pc = "translate"
    /\ \E o \in TranslateOutcomes(worker[j].chunks[worker[j].i + 1],
                                  worker[j].job.target_lang) :
          /\ ~o.raised
          /\ worker' = [worker EXCEPT ![j].translated_parts = <<o.out>> \o @,
                                      ![j].i = @ + 1,
                                      ![j].pc = "for"]
    /\ UNCHANGED <<jobs, outputs>>

\* translator.py:79-83  the chunk's translation returns and is appended
PipeTranslate(j) ==
    /\ worker[j].pc = "translate"
    /\ \E o \in TranslateOutcomes(worker[j].chunks[worker[j].i + 1],
                                  worker[j].job.target_lang) :
          /\ ~o.raised
          /\ worker' = [worker EXCEPT ![j].translated_parts = Append(@, o.out),
                                      ![j].i = @ + 1,
                                      ![j].pc = "for"]
    /\ UNCHANGED <<jobs, outputs>>

\* Mutant: a failed translation call is swallowed and the loop goes on to
\* the next chunk.
PipeTranslateRaise_Skip(j) ==
    /\ worker[j].pc = "translate"
    /\ \E o \in TranslateOutcomes(worker[j].chunks[worker[j].i + 1],
                                  worker[j].job.target_lang) : o.raised
    /\ worker' = [worker EXCEPT ![j].i = @ + 1, ![j].pc = "for"]
    /\ UNCHANGED <<jobs, outputs>>

\* translator.py:80  the translation call raises
PipeTranslateRaise(j) ==
    /\ worker[j].pc = "translate"
    /\ \E o \in TranslateOutcomes(worker[j].chunks[worker[j].i + 1],
                                  worker[j].job.target_lang) : o.raised
    /\ worker' = [worker EXCEPT ![j].pc = "except"]
    /\ UNCHANGED <<jobs, outputs>>

\* Mutant: the pipeline reports 1.0, 'Done' before it calls the writer.
PipeJoin_ReportsDone(j) ==
    /\ worker[j].pc = "for"
    /\ ~(worker[j].i < Len(worker[j].chunks))
    /\ jobs' = OnProgress(j, One, <<"Done">>)
    /\ worker' = [worker EXCEPT ![j].full = JoinLines(worker[j].translated_parts),
                                ![j].pc = "write"]
    /\ UNCHANGED outputs

\* translator.py:85-87  the loop is exhausted: join, progress_cb(0.95, ...)
PipeJoin(j) ==
    /\ worker[j].pc = "for"
    /\ ~(worker[j].i < Len(worker[j].chunks))
    /\ jobs' = OnProgress(j, Writing, <<"Writing Word document">>)
    /\ worker' = [worker EXCEPT ![j].full = JoinLines(worker[j].translated_parts),
                                ![j].pc = "write"]
    /\ UNCHANGED outputs

\* translator.py:89  write_docx saves one paragraph per line
PipeWrite(j) ==
    /\ worker[j].pc = "write"
    /\ outputs' = (OutputPathFor(j) :> SplitLines(worker[j].full)) @@ outputs
    /\ worker' = [worker EXCEPT ![j].pc = "final_progress"]
    /\ UNCHANGED jobs

\* translator.py:89  write_docx raises before doc.save has written the file
\* (python-docx missing, the output directory not writable)
PipeWriteRaise(j) ==
    /\ worker[j].pc = "write"
    /\ worker' = [worker EXCEPT ![j].pc = "except"]
    /\ UNCHANGED <<jobs, outputs>>

\* translator.py:90-91  progress_cb(1.0, 'Done')
PipeFinalProgress(j) ==
    /\ worker[j].pc = "final_progress"
    /\ jobs' = OnProgress(j, One, <<"Done">>)
    /\ worker' = [worker EXCEPT ![j].pc = "update_done"]
    /\ UNCHANGED outputs

\* Mutant: the final update names the status and leaves output_path unset.
RunUpdateDone_NoPath(j) ==
    /\ worker[j].pc = "update_done"
    /\ jobs' = StoreUpdate(j, [status |-> "done", progress |-> One, message |-> <<"Done">>])
    /\ worker' = [worker EXCEPT ![j].pc = "returned"]
    /\ UNCHANGED outputs

\* process.py:30
RunUpdateDone(j) ==
    /\ worker[j].pc = "update_done"
    /\ jobs' = StoreUpdate(j, [status |-> "done", progress |-> One, message |-> <<"Done">>,
                               output_path |-> OutputPathFor(j)])
    /\ worker' = [worker EXCEPT ![j].pc = "returned"]
    /\ UNCHANGED outputs

\* Mutant: the except clause records the status and the traceback and leaves
\* the progress where the pipeline left it.
RunExcept_KeepsProgress(j) ==
    /\ worker[j].pc = "except"
    /\ jobs' = StoreUpdate(j, [status |-> "error", message |-> <<"Traceback">>])
    /\ worker' = [worker EXCEPT ![j].pc = "returned"]
    /\ UNCHANGED outputs

\* process.py:31-32
RunExcept(j) ==
    /\ worker[j].pc = "except"
    /\ jobs' = StoreUpdate(j, [status |-> "error", message |-> <<"Traceback">>,
                               progress |-> One])
    /\ worker' = [worker EXCEPT ![j].pc = "returned"]
    /\ UNCHANGED outputs

\* What a step of a worker thread leaves alone
WorkerFrame ==
    UNCHANGED <<storeVars, splitVars, chunkDirs, uploads, issued, received, failed, resp, env>>

----------------------------------------------------------------------------
(* main.py: the job handlers *)

\* jobs_start, lines 98-100
JobsStartNotFound(stored_path) ==
    /\ stored_path \notin DOMAIN uploads
    /\ resp' = Response("jobs_start", 404, stored_path, "uploaded file not found")
    /\ UNCHANGED <<jobs, worker>>

\* jobs_start, lines 98-104: JobStore.create, then the thread is started
JobsStart(stored_path, target_lang, source_lang) ==
    /\ stored_path \in DOMAIN uploads
    /\ \E job_id \in JobIds \ DOMAIN jobs :
          /\ jobs' = (job_id :> NewJob(job_id, stored_path, target_lang, source_lang)) @@ jobs
          /\ worker' = (job_id :> ThreadStart) @@ worker
          /\ resp' = Response("jobs_start", 200, stored_path, job_id)

\* jobs_get, lines 108-111
JobsGet(job_id) ==
    resp' = IF StoreGet(job_id) = NoJob
            THEN Response("jobs_get", 404, job_id, "job not found")
            ELSE Response("jobs_get", 200, job_id, StoreGet(job_id))

\* Mutant: the handler serves the output file as soon as it exists, whatever
\* the status.
JobsDownload_NoStatusCheck(job_id) ==
    LET job == StoreGet(job_id)
    IN  resp' =
          IF job = NoJob THEN Response("jobs_download", 404, job_id, "job not found")
          ELSE IF OutputPathFor(job_id) \notin DOMAIN outputs
          THEN Response("jobs_download", 404, job_id, "output file missing")
          ELSE Response("jobs_download", 200, job_id, outputs[OutputPathFor(job_id)])

\* jobs_download, lines 115-129
JobsDownload(job_id) ==
    LET job == StoreGet(job_id)
    IN  resp' =
          IF job = NoJob THEN Response("jobs_download", 404, job_id, "job not found")
          ELSE IF job.status # "done"
          THEN Response("jobs_download", 400, job_id, "job not finished")
          ELSE IF job.output_path \notin DOMAIN outputs
          THEN Response("jobs_download", 404, job_id, "output file missing")
          ELSE Response("jobs_download", 200, job_id, outputs[job.output_path])

----------------------------------------------------------------------------
(* Idle values of the variables a specification does not use *)

UploadIdle ==
    /\ chunkDirs = <<>>
    /\ uploads = <<>>
    /\ issued = {}
    /\ received = <<>>
    /\ failed = {}
    /\ resp = Response("none", 0, "", "")

JobsIdle ==
    /\ jobs = <<>>
    /\ worker = <<>>
    /\ outputs = <<>>
    /\ env = [CHUNK_CHARS |-> DefaultChunkChars, OPENAI_API_KEY |-> FALSE]

StoreIdle ==
    /\ lock = "free"
    /\ call = <<>>

SplitIdle ==
    /\ sText = <<>>
    /\ sMax = DefaultChunkChars
    /\ sStart = 0
    /\ sChunks = <<>>
    /\ sPc = "idle"

----------------------------------------------------------------------------
(* SpecSplit: _split_text on every text of at most MaxLen characters and   *)
(* every max_chars in 1..MaxChars.                                         *)

InitSplit ==
    /\ \E t \in SeqsUpTo(Chars, MaxLen), m \in 1..MaxChars : SplitCall(t, m)
    /\ UploadIdle
    /\ JobsIdle
    /\ StoreIdle

NextSplit ==
    \/ SplitLoop /\ UNCHANGED <<uploadVars, jobVars, storeVars>>
    \/ SplitReturn /\ UNCHANGED <<uploadVars, jobVars, storeVars>>

SpecSplit == InitSplit /\ [][NextSplit]_vars

----------------------------------------------------------------------------
(* SpecUpload: the upload handlers and jobs_start, each request handled    *)
(* whole, in any order, for every client input within the bounds.          *)

StoredNames ==
    {[id |-> u, name |-> PathName(f)] : u \in ClientIds, f \in Filenames \ {BlankName}}
    \cup {[id |-> u, name |-> [dir |-> <<>>, stem |-> u, ext |-> ".bin"]] : u \in ClientIds}

InitUpload ==
    /\ UploadIdle
    /\ JobsIdle
    /\ SplitIdle
    /\ StoreIdle

NextUpload ==
    \/ \E f \in Filenames :
          UploadInit(f) /\ UNCHANGED <<splitVars, jobVars, storeVars>>
    \/ \E u \in ClientIds, i \in Indices, p \in Payloads :
          UploadChunkNotFound(u, i, p) /\ UNCHANGED <<splitVars, jobVars, storeVars>>
    \/ \E u \in ClientIds, i \in Indices, p \in Payloads :
          UploadChunk(u, i, p) /\ UNCHANGED <<splitVars, jobVars, storeVars>>
    \/ \E u \in ClientIds, t \in Totals :
          UploadCompleteNotFound(u, t) /\ UNCHANGED <<splitVars, jobVars, storeVars>>
    \/ \E u \in ClientIds, t \in Totals :
          UploadCompleteMissing(u, t) /\ UNCHANGED <<splitVars, jobVars, storeVars>>
    \/ \E u \in ClientIds, t \in Totals :
          UploadCompleteOk(u, t) /\ UNCHANGED <<splitVars, jobVars, storeVars>>
    \/ \E sp \in StoredNames :
          /\ JobsStartNotFound(sp)
          /\ UNCHANGED <<storeVars, splitVars, chunkDirs, uploads, issued, received, failed, outputs, env>>
    \/ \E sp \in StoredNames, tl \in TargetLangs, sl \in SourceLangs :
          /\ JobsStart(sp, tl, sl)
          /\ UNCHANGED <<storeVars, splitVars, chunkDirs, uploads, issued, received, failed, outputs, env>>

SpecUpload == InitUpload /\ [][NextUpload]_vars

(* SpecUploadIO: SpecUpload on a file system whose copy can fail. *)

NextUploadIO ==
    \/ NextUpload
    \/ \E u \in ClientIds, t \in Totals :
          UploadCompleteIOError(u, t) /\ UNCHANGED <<splitVars, jobVars, storeVars>>

SpecUploadIO == InitUpload /\ [][NextUploadIO]_vars

----------------------------------------------------------------------------
(* SpecUploadPaths: upload_init and upload_chunk where the upload_id form  *)
(* value may also be ".".  CHUNK_DIR / upload_id then names CHUNK_DIR      *)
(* itself, which main.py:20-21 creates when the module is loaded; it is    *)
(* the entry ChunkRoot of chunkDirs, without a meta.txt.                   *)

ChunkRoot == "."
NoMeta    == [dir |-> <<>>, stem |-> "", ext |-> ""]
PathIds   == ClientIds \cup {ChunkRoot}

InitUploadPaths ==
    /\ chunkDirs = (ChunkRoot :> [meta |-> NoMeta, parts |-> <<>>])
    /\ uploads = <<>>
    /\ issued = {}
    /\ received = (ChunkRoot :> <<>>)
    /\ failed = {}
    /\ resp = Response("none", 0, "", "")
    /\ JobsIdle
    /\ SplitIdle
    /\ StoreIdle

NextUploadPaths ==
    \/ \E f \in Filenames :
          UploadInit(f) /\ UNCHANGED <<splitVars, jobVars, storeVars>>
    \/ \E u \in PathIds, i \in Indices, p \in Payloads :
          UploadChunkNotFound(u, i, p) /\ UNCHANGED <<splitVars, jobVars, storeVars>>
    \/ \E u \in PathIds, i \in Indices, p \in Payloads :
          UploadChunk(u, i, p) /\ UNCHANGED <<splitVars, jobVars, storeVars>>

SpecUploadPaths == InitUploadPaths /\ [][NextUploadPaths]_vars

----------------------------------------------------------------------------
(* Spec: the job registry, the worker threads and the pipeline, over an    *)
(* UPLOAD_DIR that holds assembled uploads.                                *)

ChunkCharsValues  == {SmallChunkChars, DefaultChunkChars}

Repeat(c, n) == [k \in 1..n |-> c]

\* Contents of the uploaded text file: empty, one chunk, two chunks cut at
\* a newline, three chunks cut hard
JobTexts ==
    { <<>>,
      <<"a", "xFF">>,
      Repeat("a", SmallChunkChars - 10) \o <<NL>> \o Repeat("a", 10),
      Repeat("a", 2 * SmallChunkChars + 1) }

TxtUpload  == [id |-> "u1", name |-> [dir |-> <<>>, stem |-> "doc", ext |-> ".TXT"]]
XyzUpload  == [id |-> "u2", name |-> [dir |-> <<>>, stem |-> "doc", ext |-> ".xyz"]]
DocxUpload == [id |-> "u3", name |-> [dir |-> <<>>, stem |-> "doc", ext |-> ".docx"]]
GoneUpload == [id |-> "u4", name |-> [dir |-> <<>>, stem |-> "doc", ext |-> ".txt"]]

InitJobs ==
    /\ \E t \in JobTexts :
          uploads = (TxtUpload :> t) @@ (XyzUpload :> <<"a">>) @@ (DocxUpload :> <<"a">>)
    /\ \E c \in ChunkCharsValues, k \in BOOLEAN :
          env = [CHUNK_CHARS |-> c, OPENAI_API_KEY |-> k]
    /\ chunkDirs = <<>>
    /\ issued = {}
    /\ received = <<>>
    /\ failed = {}
    /\ resp = Response("none", 0, "", "")
    /\ jobs = <<>>
    /\ worker = <<>>
    /\ outputs = <<>>
    /\ SplitIdle
    /\ StoreIdle

JobUploads == {TxtUpload, XyzUpload, DocxUpload, GoneUpload}

Next ==
    \/ \E sp \in JobUploads :
          /\ JobsStartNotFound(sp)
          /\ UNCHANGED <<storeVars, splitVars, chunkDirs, uploads, issued, received, failed, outputs, env>>
    \/ \E sp \in JobUploads, tl \in TargetLangs, sl \in SourceLangs :
          /\ JobsStart(sp, tl, sl)
          /\ UNCHANGED <<storeVars, splitVars, chunkDirs, uploads, issued, received, failed, outputs, env>>
    \/ \E j \in DOMAIN worker : RunGet(j) /\ WorkerFrame
    \/ \E j \in DOMAIN worker : RunUpdateRunning(j) /\ WorkerFrame
    \/ \E j \in DOMAIN worker : PipeExtract(j) /\ WorkerFrame
    \/ \E j \in DOMAIN worker : PipeExtractRaise(j) /\ WorkerFrame
    \/ \E j \in DOMAIN worker : PipeSplitLoop(j) /\ WorkerFrame
    \/ \E j \in DOMAIN worker : PipeSplitReturn(j) /\ WorkerFrame
    \/ \E j \in DOMAIN worker : PipeChunkProgress(j) /\ WorkerFrame
    \/ \E j \in DOMAIN worker : PipeTranslate(j) /\ WorkerFrame
    \/ \E j \in DOMAIN worker : PipeTranslateRaise(j) /\ WorkerFrame
    \/ \E j \in DOMAIN worker : PipeJoin(j) /\ WorkerFrame
    \/ \E j \in DOMAIN worker : PipeWrite(j) /\ WorkerFrame
    \/ \E j \in DOMAIN worker : PipeWriteRaise(j) /\ WorkerFrame
    \/ \E j \in DOMAIN worker : PipeFinalProgress(j) /\ WorkerFrame
    \/ \E j \in DOMAIN worker : RunUpdateDone(j) /\ WorkerFrame
    \/ \E j \in DOMAIN worker : RunExcept(j) /\ WorkerFrame
    \/ \E j \in JobIds :
          /\ JobsGet(j)
          /\ UNCHANGED <<storeVars, splitVars, chunkDirs, uploads, issued, received, failed, jobs, worker, outputs, env>>
    \/ \E j \in JobIds :
          /\ JobsDownload(j)
          /\ UNCHANGED <<storeVars, splitVars, chunkDirs, uploads, issued, received, failed, jobs, worker, outputs, env>>

Spec == InitJobs /\ [][Next]_vars

----------------------------------------------------------------------------
(* SpecLive: Spec's worker threads under a fair scheduler, for every text  *)
(* of at most MaxLiveLen characters and every CHUNK_CHARS in               *)
(* -1..MaxLiveChars.  A thread that can take a step eventually takes one,  *)
(* and each collaborator call returns or raises.  _split_text on n         *)
(* characters with max_chars >= 1 ends within n iterations; the model      *)
(* follows the loop for MaxSplitSteps > n iterations and no further.       *)

LiveChunkChars == (-1)..MaxLiveChars
LiveTexts      == SeqsUpTo({"a", NL}, MaxLiveLen)
MaxSplitSteps  == MaxLiveLen + 1
LiveUploads    == {TxtUpload, DocxUpload}

InitLive ==
    /\ \E t \in LiveTexts :
          uploads = (TxtUpload :> t) @@ (DocxUpload :> <<"a">>)
    /\ \E c \in LiveChunkChars, k \in BOOLEAN :
          env = [CHUNK_CHARS |-> c, OPENAI_API_KEY |-> k]
    /\ chunkDirs = <<>>
    /\ issued = {}
    /\ received = <<>>
    /\ failed = {}
    /\ resp = Response("none", 0, "", "")
    /\ jobs = <<>>
    /\ worker = <<>>
    /\ outputs = <<>>
    /\ SplitIdle
    /\ StoreIdle

\* The next statement of the thread of job j
LiveStep(j) ==
    /\ j \in DOMAIN worker
    /\ \/ RunGet(j)
       \/ RunUpdateRunning(j)
       \/ PipeExtract(j)
       \/ PipeExtractRaise(j)
       \/ PipeSplitLoop(j) /\ Len(worker[j].chunks) < MaxSplitSteps
       \/ PipeSplitReturn(j)
       \/ PipeChunkProgress(j)
       \/ PipeTranslate(j)
       \/ PipeTranslateRaise(j)
       \/ PipeJoin(j)
       \/ PipeWrite(j)
       \/ PipeWriteRaise(j)
       \/ PipeFinalProgress(j)
       \/ RunUpdateDone(j)
       \/ RunExcept(j)
    /\ WorkerFrame

NextLive ==
    \/ \E sp \in LiveUploads, tl \in TargetLangs, sl \in SourceLangs :
          /\ Cardinality(DOMAIN jobs) < MaxLiveJobs
          /\ JobsStart(sp, tl, sl)
          /\ UNCHANGED <<storeVars, splitVars, chunkDirs, uploads, issued, received, failed, outputs, env>>
    \/ \E j \in JobIds : LiveStep(j)

SpecLive ==
    InitLive /\ [][NextLive]_vars /\ \A j \in JobIds : WF_vars(LiveStep(j))

----------------------------------------------------------------------------
(* SpecStore: the methods of JobStore called from concurrent threads,      *)
(* statement by statement.  `with self._lock` admits a thread only while   *)
(* no other thread is inside a with block; update's setattr loop runs one  *)
(* attribute per step while the thread holds the lock.                     *)

Updaters     == {"w1", "w2"}    \* threads that call update
Getters      == {"c1"}          \* threads that call get and use the result
StoreThreads == Updaters \cup Getters

\* A thread outside every JobStore method.  before is history: the stored
\* job as update found it.
IdleCall ==
    [ pc |-> "idle", op |-> "none", job_id |-> "None", kwargs |-> <<>>, pos |-> 0,
      before |-> NoJob, ret |-> NoJob ]

\* kwargs.items() of the update calls of process.py:17 and :32, in call
\* order, and of a call that names no attribute of Job
RunningKwargs ==
    << <<"status", "running">>, <<"progress", Starting>>, <<"message", <<"Starting">>>> >>
ErrorKwargs ==
    << <<"status", "error">>, <<"message", <<"Traceback">>>>, <<"progress", One>> >>
UnknownKwargs == << <<"eta", "soon">> >>
StoreKwargs == {RunningKwargs, ErrorKwargs, UnknownKwargs}

\* The keyword arguments as a mapping
KwargsFields(kwargs) ==
    [k \in {kwargs[i][1] : i \in 1..Len(kwargs)} |->
        kwargs[CHOOSE i \in 1..Len(kwargs) : kwargs[i][1] = k][2]]

\* JobStore.create, lines 28-40
StoreCreate(file_path, target_lang, source_lang) ==
    /\ lock = "free"
    /\ \E job_id \in JobIds \ DOMAIN jobs :
          jobs' = (job_id :> NewJob(job_id, file_path, target_lang, source_lang)) @@ jobs
    /\ UNCHANGED <<lock, call>>

\* Mutant: get reads the registry without taking the lock.
GetCall_NoLock(t, job_id) ==
    /\ call[t].pc = "idle"
    /\ call' = [call EXCEPT ![t] =
                  [IdleCall EXCEPT !.op = "get", !.job_id = job_id, !.ret = StoreGet(job_id)]]
    /\ UNCHANGED <<lock, jobs>>

\* JobStore.get, lines 43-45, the whole with block
GetCall(t, job_id) ==
    /\ call[t].pc = "idle"
    /\ lock = "free"
    /\ call' = [call EXCEPT ![t] =
                  [IdleCall EXCEPT !.op = "get", !.job_id = job_id, !.ret = StoreGet(job_id)]]
    /\ UNCHANGED <<lock, jobs>>

\* The caller assigns to an item of what get returned: the dict asdict built
\* belongs to the caller; an assignment through a stored Job would change
\* the registry.
ClientMutate(t) ==
    /\ call[t].pc = "idle"
    /\ call[t].op \in {"get", "mutate"}
    /\ call[t].ret # NoJob
    /\ IF "live" \in DOMAIN call[t].ret
       THEN /\ jobs' = [jobs EXCEPT ![call[t].ret.live].status = "edited"]
            /\ call' = [call EXCEPT ![t].op = "mutate"]
       ELSE /\ call' = [call EXCEPT ![t].op = "mutate", ![t].ret.status = "edited"]
            /\ UNCHANGED jobs
    /\ UNCHANGED lock

\* Mutant: update stores a new job for an id it does not find.
UpdateEnterMissing_Creates(t, job_id, kwargs) ==
    /\ call[t].pc = "idle"
    /\ lock = "free"
    /\ job_id \notin DOMAIN jobs
    /\ jobs' = (job_id :> NewJob(job_id, TxtUpload, "ko", "None")) @@ jobs
    /\ call' = [call EXCEPT ![t] =
                  [IdleCall EXCEPT !.op = "update", !.job_id = job_id, !.kwargs = kwargs]]
    /\ UNCHANGED lock

\* JobStore.update, lines 48-51: the id is not in the map, return
UpdateEnterMissing(t, job_id, kwargs) ==
    /\ call[t].pc = "idle"
    /\ lock = "free"
    /\ job_id \notin DOMAIN jobs
    /\ call' = [call EXCEPT ![t] =
                  [IdleCall EXCEPT !.op = "update", !.job_id = job_id, !.kwargs = kwargs]]
    /\ UNCHANGED <<lock, jobs>>

\* JobStore.update, lines 48-50: the lock is taken and the job found
UpdateEnter(t, job_id, kwargs) ==
    /\ call[t].pc = "idle"
    /\ lock = "free"
    /\ job_id \in DOMAIN jobs
    /\ lock' = t
    /\ call' = [call EXCEPT ![t] =
                  [IdleCall EXCEPT !.pc = "setattr", !.op = "update", !.job_id = job_id,
                                   !.kwargs = kwargs, !.pos = 1, !.before = jobs[job_id]]]
    /\ UNCHANGED jobs

\* JobStore.update, lines 52-54: one turn of the loop over kwargs.items()
UpdateSetattr(t) ==
    /\ call[t].pc = "setattr"
    /\ call[t].pos <= Len(call[t].kwargs)
    /\ LET k == call[t].kwargs[call[t].pos][1]
           v == call[t].kwargs[call[t].pos][2]
       IN  jobs' = IF k \in DOMAIN jobs[call[t].job_id]
                   THEN [jobs EXCEPT ![call[t].job_id][k] = v]
                   ELSE jobs
    /\ call' = [call EXCEPT ![t].pos = @ + 1]
    /\ UNCHANGED lock

\* JobStore.update: the loop is exhausted, the with block releases the lock
UpdateExit(t) ==
    /\ call[t].pc = "setattr"
    /\ call[t].pos > Len(call[t].kwargs)
    /\ lock' = "free"
    /\ call' = [call EXCEPT ![t] =
                  [IdleCall EXCEPT !.op = "update", !.job_id = call[t].job_id,
                                   !.kwargs = call[t].kwargs]]
    /\ UNCHANGED jobs

StoreFrame ==
    UNCHANGED <<splitVars, uploadVars, worker, outputs, env>>

InitStore ==
    /\ jobs = <<>>
    /\ lock = "free"
    /\ call = [t \in StoreThreads |-> IdleCall]
    /\ worker = <<>>
    /\ outputs = <<>>
    /\ env = [CHUNK_CHARS |-> DefaultChunkChars, OPENAI_API_KEY |-> FALSE]
    /\ UploadIdle
    /\ SplitIdle

NextStore ==
    \/ \E tl \in TargetLangs, sl \in SourceLangs :
          StoreCreate(TxtUpload, tl, sl) /\ StoreFrame
    \/ \E t \in Getters, j \in JobIds : GetCall(t, j) /\ StoreFrame
    \/ \E t \in Getters : ClientMutate(t) /\ StoreFrame
    \/ \E t \in Updaters, j \in JobIds, kw \in StoreKwargs :
          UpdateEnterMissing(t, j, kw) /\ StoreFrame
    \/ \E t \in Updaters, j \in JobIds, kw \in StoreKwargs :
          UpdateEnter(t, j, kw) /\ StoreFrame
    \/ \E t \in Updaters : UpdateSetattr(t) /\ StoreFrame
    \/ \E t \in Updaters : UpdateExit(t) /\ StoreFrame

SpecStore == InitStore /\ [][NextStore]_vars

----------------------------------------------------------------------------
(* Claims about the job runner, checked under Spec *)

Unsupported(file_path) ==
    Lower(file_path.name.ext) \notin SupportedText \cup {".docx"}

IsGet(r) == r.op = "jobs_get" /\ r.code = 200

(* C1: two successive jobs_get polls of one job that both see status      *)
(* running never see the progress go down.                                 *)
C1_ProgressNonDecreasing ==
    [][ (/\ IsGet(resp) /\ IsGet(resp')
         /\ resp.arg = resp'.arg
         /\ resp.out.status = "running"
         /\ resp'.out.status = "running")
        => Leq(resp.out.progress, resp'.out.progress) ]_vars

(* C2: a job is created queued and its status only moves queued -> running,*)
(* running -> done or running -> error; done and error are never left.     *)
C2_StatusTransitions ==
    [][ \A j \in JobIds :
          /\ (j \in DOMAIN jobs => j \in DOMAIN jobs')
          /\ (j \notin DOMAIN jobs /\ j \in DOMAIN jobs' => jobs'[j].status = "queued")
          /\ (j \in DOMAIN jobs /\ jobs'[j].status # jobs[j].status
                => <<jobs[j].status, jobs'[j].status>> \in
                      { <<"queued", "running">>, <<"running", "done">>,
                        <<"running", "error">> }) ]_vars

\* Both terminal states are reached, by threads that have returned.
C2_Witness ==
    \E j, k \in DOMAIN jobs :
        /\ jobs[j].status = "done" /\ worker[j].pc = "returned"
        /\ jobs[k].status = "error" /\ worker[k].pc = "returned"

(* C3: a job on a file whose suffix extract_text does not recognise ends   *)
(* in error with progress 1.0 and the failure as message, without any      *)
(* translation call or document write.                                     *)
C3_UnsupportedEndsInError ==
    \A j \in DOMAIN jobs :
        (Unsupported(jobs[j].file_path) /\ worker[j].pc = "returned")
        => /\ jobs[j].status = "error"
           /\ jobs[j].progress = One
           /\ jobs[j].message = <<"Traceback">>
           /\ worker[j].translated_parts = <<>>
           /\ OutputPathFor(j) \notin DOMAIN outputs

(* C12: a failure raised by extract_text, the translation call or          *)
(* write_docx is caught by run(): the thread's next step is one registry   *)
(* update that sets status error, progress 1.0 and the traceback as        *)
(* message and nothing else, then the thread returns; a thread that has    *)
(* returned left its job done or error; and no jobs_get response shows     *)
(* status error with a progress other than 1.0.                            *)
C12_FailureRecorded ==
    [][ /\ \A j \in DOMAIN worker :
              /\ (worker[j].pc = "except" /\ worker'[j] # worker[j])
                    => /\ worker'[j].pc = "returned"
                       /\ jobs'[j].status = "error"
                       /\ jobs'[j].progress = One
                       /\ jobs'[j].message = <<"Traceback">>
                       /\ \A k \in DOMAIN jobs[j] \ {"status", "progress", "message"} :
                              jobs'[j][k] = jobs[j][k]
                       /\ \A o \in DOMAIN jobs \ {j} : jobs'[o] = jobs[o]
              /\ (worker'[j].pc = "returned" /\ worker'[j].job # NoJob)
                    => jobs'[j].status \in {"done", "error"}
        /\ (IsGet(resp') /\ resp'.out.status = "error") => resp'.out.progress = One
        /\ \A j \in DOMAIN jobs' : jobs'[j].status = "error" => jobs'[j].progress = One
      ]_vars

\* A poll that sees the error of a translation call that failed on a later
\* chunk, after the progress of the chunks before it had been reported.
C12_Witness ==
    /\ IsGet(resp) /\ resp.out.status = "error" /\ resp.out.progress = One
    /\ resp.arg \in DOMAIN worker
    /\ worker[resp.arg].pc = "returned"
    /\ worker[resp.arg].translated_parts # <<>>
    /\ worker[resp.arg].i < Len(worker[resp.arg].chunks)

(* C13: a jobs_get response that shows status running shows a progress     *)
(* strictly above 0.0; progress 0.0 is seen only for a queued job.         *)
C13_RunningProgressPositive ==
    IsGet(resp) =>
        /\ (resp.out.status = "running" => Less(Zero, resp.out.progress))
        /\ (resp.out.progress = Zero => resp.out.status = "queued")

(* C14: in the registry and in every jobs_get response output_path is set  *)
(* exactly when the status is done: unset for queued, running and error    *)
(* jobs, set for every done job.                                           *)
C14_OutputPathIffDone ==
    /\ \A j \in DOMAIN jobs :
          (jobs[j].output_path # NoPath) <=> (jobs[j].status = "done")
    /\ IsGet(resp) => ((resp.out.output_path # NoPath) <=> (resp.out.status = "done"))

\* One job polled as done with its path, another ended in error without one.
C14_Witness ==
    /\ IsGet(resp) /\ resp.out.status = "done"
    /\ resp.out.output_path = OutputPathFor(resp.arg)
    /\ \E k \in DOMAIN jobs : jobs[k].status = "error" /\ jobs[k].output_path = NoPath

\* A step of the jobs_download handler: it answers and leaves the registry
\* and the threads alone.
IsDownload(r) == r.op = "jobs_download"

(* C15: jobs_download answers with the file only for a job whose status is *)
(* done and refuses queued, running and error jobs with 400; and a job is  *)
(* done only after write_docx has returned for its output path, so a done  *)
(* job's output file exists and holds the whole document.                  *)
C15_DownloadOnlyWhenDone ==
    [][ /\ (IsDownload(resp') /\ worker' = worker /\ jobs' = jobs /\ outputs' = outputs)
              => /\ (resp'.code = 200)
                       => /\ resp'.arg \in DOMAIN jobs
                          /\ jobs[resp'.arg].status = "done"
                          /\ resp'.out = outputs[OutputPathFor(resp'.arg)]
                 /\ (resp'.arg \in DOMAIN jobs /\ jobs[resp'.arg].status # "done")
                       => resp'.code = 400
        /\ \A j \in DOMAIN jobs' :
              jobs'[j].status = "done"
                 => /\ jobs'[j].output_path \in DOMAIN outputs'
                    /\ outputs'[jobs'[j].output_path] = SplitLines(worker'[j].full)
      ]_vars

\* A download of a document of several paragraphs.
C15_Witness ==
    /\ IsDownload(resp) /\ resp.code = 200
    /\ Len(resp.out) >= 3
    /\ jobs[resp.arg].status = "done"

(* C11: every job whose thread has been started eventually has status done *)
(* or error, for every text and every CHUNK_CHARS the pipeline reads from   *)
(* the environment, 0 and negative values included: every iteration of the *)
(* loop of _split_text moves start forward, so the loop ends.               *)
C11_JobEventuallyEnds ==
    /\ [][ \A j \in DOMAIN worker :
              (worker[j].pc = "split" /\ worker'[j].chunks # worker[j].chunks)
              => worker'[j].start > worker[j].start ]_vars
    /\ \A j \in JobIds :
          (j \in DOMAIN jobs) ~> (j \in DOMAIN jobs /\ jobs[j].status \in {"done", "error"})

\* What _translate_fallback returns for a chunk
Fallback(chunk, target_lang) == FallbackHeader(target_lang) \o <<NL, NL>> \o chunk

(* C21: within a job the chunks go to the translation call in split order, *)
(* one at a time: the call in flight is the one for the chunk right after  *)
(* the parts collected so far, a call is issued only when every earlier    *)
(* call has returned, and the collected parts are the translations of      *)
(* chunks 1..i in that order.                                              *)
C21_ChunksInOrder ==
    \A j \in DOMAIN worker :
        /\ Len(worker[j].translated_parts) = worker[j].i
        /\ worker[j].i <= Len(worker[j].chunks)
        /\ (worker[j].pc = "translate") => worker[j].i < Len(worker[j].chunks)
        /\ ~env.OPENAI_API_KEY
              => \A k \in 1..Len(worker[j].translated_parts) :
                    worker[j].translated_parts[k] =
                        Fallback(worker[j].chunks[k], worker[j].job.target_lang)

\* Of two different chunks the first is translated and the second is in
\* flight.
C21_Witness ==
    \E j \in DOMAIN worker :
        /\ ~env.OPENAI_API_KEY
        /\ worker[j].pc = "translate"
        /\ Len(worker[j].chunks) = 2
        /\ worker[j].i = 1
        /\ worker[j].chunks[1] # worker[j].chunks[2]
        /\ worker[j].translated_parts = <<Fallback(worker[j].chunks[1], worker[j].job.target_lang)>>

(* C22: while the translation call for the chunk with 0-based index i is   *)
(* in flight the registry holds progress i / total and the message for     *)
(* chunk i+1, and a jobs_get made then returns i / total, never            *)
(* (i+1) / total.                                                          *)
C22_ProgressBeforeCall ==
    [][ \A j \in DOMAIN worker' :
          (worker'[j].pc = "translate")
          => /\ jobs'[j].progress = Frac(worker'[j].i, worker'[j].total)
             /\ jobs'[j].progress # Frac(worker'[j].i + 1, worker'[j].total)
             /\ jobs'[j].message = <<"Translating chunk", worker'[j].i + 1, worker'[j].total>>
             /\ jobs'[j].status = "running"
             /\ (IsGet(resp') /\ resp'.arg = j /\ resp' # resp)
                   => resp'.out.progress = Frac(worker[j].i, worker[j].total)
      ]_vars

\* A poll during the translation of the second of three chunks sees 1/3.
C22_Witness ==
    /\ IsGet(resp) /\ resp.out.status = "running"
    /\ resp.out.progress = Frac(1, 3)
    /\ resp.arg \in DOMAIN worker
    /\ worker[resp.arg].pc = "translate"
    /\ worker[resp.arg].i = 1
    /\ worker[resp.arg].total = 3

(* C23: the pipeline does not retry and stops at the first failure: a      *)
(* translation call is issued only for the chunk after those already       *)
(* translated, a call that fails leaves the thread in the except clause    *)
(* with the chunk index where it was, and from there no further call is    *)
(* issued, write_docx is not called and the job ends in error.             *)
C23_StopsAtFirstFailure ==
    [][ \A j \in DOMAIN worker :
          /\ (worker[j].pc = "translate" /\ worker'[j] # worker[j])
                => \/ /\ worker'[j].pc = "for"
                      /\ worker'[j].i = worker[j].i + 1
                      /\ Len(worker'[j].translated_parts) = worker'[j].i
                   \/ /\ worker'[j].pc = "except"
                      /\ worker'[j].i = worker[j].i
                      /\ worker'[j].translated_parts = worker[j].translated_parts
          /\ (worker[j].pc = "except" /\ worker'[j] # worker[j])
                => /\ worker'[j] = [worker[j] EXCEPT !.pc = "returned"]
                   /\ jobs'[j].status = "error"
                   /\ outputs' = outputs
          /\ (worker[j].pc = "returned") => worker'[j] = worker[j]
          /\ (worker'[j].pc \in {"except", "returned"} /\ worker'[j].i < Len(worker'[j].chunks))
                => /\ OutputPathFor(j) \notin DOMAIN outputs'
                   /\ worker'[j].full = <<>>
                   /\ jobs'[j].status # "done"
      ]_vars

\* The call for the second of three chunks failed: the job is in error, the
\* third chunk was never submitted and nothing was written.
C23_Witness ==
    \E j \in DOMAIN worker :
        /\ worker[j].pc = "returned"
        /\ jobs[j].status = "error"
        /\ Len(worker[j].chunks) = 3
        /\ worker[j].i = 1
        /\ Len(worker[j].translated_parts) = 1
        /\ OutputPathFor(j) \notin DOMAIN outputs

\* parts[1], "\n", parts[2], "\n", ... parts[n]: n parts and n-1 newlines
Interleaved(parts) ==
    Concat([k \in 1..(2 * Len(parts) - 1) |->
              IF k % 2 = 1 THEN parts[(k + 1) \div 2] ELSE <<NL>>])

(* C24: the text handed to write_docx is the translated parts in split     *)
(* order with exactly one newline between two consecutive parts and none   *)
(* before the first or after the last: for n chunks, n parts and n-1       *)
(* separators.                                                             *)
C24_JoinedWithOneNewline ==
    \A j \in DOMAIN worker :
        (worker[j].pc \in {"write", "final_progress", "update_done"}
           \/ (j \in DOMAIN jobs /\ jobs[j].status = "done"))
        => /\ Len(worker[j].translated_parts) = Len(worker[j].chunks)
           /\ worker[j].full = Interleaved(worker[j].translated_parts)
           /\ (OutputPathFor(j) \in DOMAIN outputs)
                 => outputs[OutputPathFor(j)] = SplitLines(Interleaved(worker[j].translated_parts))

\* Three parts, the first ending in a character other than a newline, have
\* been joined and written.
C24_Witness ==
    \E j \in DOMAIN worker :
        /\ worker[j].pc = "final_progress"
        /\ Len(worker[j].translated_parts) = 3
        /\ Len(worker[j].full) =
              Len(worker[j].translated_parts[1]) + Len(worker[j].translated_parts[2])
              + Len(worker[j].translated_parts[3]) + 2
        /\ OutputPathFor(j) \in DOMAIN outputs

(* C25: when the loop over the chunks is done the pipeline reports 0.95    *)
(* before it calls write_docx, and reports 1.0, 'Done' only after          *)
(* write_docx has returned; if write_docx raises the pipeline reports      *)
(* nothing more and the job ends in error, never done.                     *)
C25_WriterBetweenReports ==
    [][ \A j \in DOMAIN worker :
          /\ (worker'[j].pc = "write")
                => /\ jobs'[j].progress = Writing
                   /\ jobs'[j].message = <<"Writing Word document">>
                   /\ jobs'[j].status = "running"
          /\ (jobs'[j].message = <<"Done">>)
                => /\ OutputPathFor(j) \in DOMAIN outputs'
                   /\ worker'[j].pc \in {"update_done", "returned"}
          /\ (worker[j].pc = "write" /\ worker'[j].pc = "except")
                => /\ jobs' = jobs
                   /\ outputs' = outputs
          /\ (worker[j].pc = "except" /\ worker'[j] # worker[j])
                => /\ jobs'[j].status = "error"
                   /\ jobs'[j].message # <<"Done">>
      ]_vars

\* write_docx failed for one job after all its chunks were translated; a
\* poll of another job made while its document is written sees 0.95.
C25_Witness ==
    /\ IsGet(resp) /\ resp.out.progress = Writing
    /\ resp.arg \in DOMAIN worker /\ worker[resp.arg].pc = "write"
    /\ \E j \in DOMAIN worker :
          /\ worker[j].pc = "returned"
          /\ jobs[j].status = "error"
          /\ worker[j].chunks # <<>>
          /\ worker[j].i = Len(worker[j].chunks)
          /\ OutputPathFor(j) \notin DOMAIN outputs

(* C28: jobs are independent: a step of one job's worker thread leaves     *)
(* every other job's record as it was, a record that is already stored     *)
(* changes only in a step of its own worker, and so the failure of one job *)
(* never changes the status of another.                                    *)
C28_JobsIndependent ==
    [][ /\ \A j \in DOMAIN worker :
              (worker'[j] # worker[j])
              => \A k \in DOMAIN jobs \ {j} : jobs'[k] = jobs[k]
        /\ \A k \in DOMAIN jobs :
              (jobs'[k] # jobs[k]) => worker'[k] # worker[k]
      ]_vars

\* j2 has failed and ended while j1, still running, has its second chunk
\* in translation.
C28_Witness ==
    /\ {"j1", "j2"} \subseteq DOMAIN jobs
    /\ jobs["j2"].status = "error" /\ worker["j2"].pc = "returned"
    /\ jobs["j1"].status = "running"
    /\ worker["j1"].pc = "translate" /\ worker["j1"].i = 1

(* C29: a job that is done has progress 1.0 and the output path            *)
(* output_dir / '<job_id>.docx' of its own id, in the registry and in      *)
(* every jobs_get response that shows done.                                *)
C29_DoneImpliesFullProgress ==
    /\ \A j \in DOMAIN jobs :
          (jobs[j].status = "done")
          => jobs[j].progress = One /\ jobs[j].output_path = <<j, ".docx">>
    /\ (IsGet(resp) /\ resp.out.status = "done")
          => /\ resp.out.progress = One
             /\ resp.out.output_path = <<resp.arg, ".docx">>

\* A poll sees one job done with progress 1.0 and its path while another
\* job holds progress 1.0, 'Done' and is still running.
C29_Witness ==
    /\ IsGet(resp) /\ resp.out.status = "done" /\ resp.out.progress = One
    /\ \E k \in DOMAIN jobs \ {resp.arg} :
          /\ jobs[k].status = "running"
          /\ jobs[k].progress = One
          /\ jobs[k].output_path = NoPath

----------------------------------------------------------------------------
(* Claims about JobStore, checked under SpecStore *)

\* What a caller reads through a value get returned
View(ret, js) == IF "live" \in DOMAIN ret THEN js[ret.live] ELSE ret

\* job with the named fields it has replaced
Merged(job, fields) ==
    [k \in DOMAIN job |-> IF k \in DOMAIN fields THEN fields[k] ELSE job[k]]

(* C16: get returns None for an id that is not stored and otherwise the    *)
(* stored job's fields as a value of its own: an assignment to the         *)
(* returned value leaves the registry, and so what later gets return,      *)
(* unchanged, and no later update or create changes what the caller reads  *)
(* from a value returned earlier.                                          *)
C16_GetReturnsSnapshot ==
    [][ \A t \in Getters :
          /\ (call'[t] # call[t] /\ call'[t].op = "get")
                => /\ (call'[t].job_id \notin DOMAIN jobs) => call'[t].ret = NoJob
                   /\ (call'[t].job_id \in DOMAIN jobs)
                         => View(call'[t].ret, jobs') = jobs[call'[t].job_id]
                   /\ jobs' = jobs
          /\ (call'[t] # call[t] /\ call'[t].op = "mutate") => jobs' = jobs
          /\ (call'[t] = call[t] /\ call[t].ret # NoJob)
                => View(call'[t].ret, jobs') = View(call[t].ret, jobs)
      ]_vars

\* The caller changed its snapshot and the stored job was then updated to
\* error: the two differ and neither followed the other.
C16_Witness ==
    \E t \in Getters :
        /\ call[t].op = "mutate"
        /\ call[t].ret.status = "edited"
        /\ call[t].ret.progress = Zero
        /\ call[t].job_id \in DOMAIN jobs
        /\ jobs[call[t].job_id].status = "error"
        /\ jobs[call[t].job_id].progress = One

(* C17: update with an id that is not in the registry returns without an   *)
(* error and leaves the registry as it was: no job is created and no       *)
(* stored job changes.                                                     *)
C17_UpdateUnknownIsNoOp ==
    [][ \A t \in Updaters :
          (/\ call[t].pc = "idle"
           /\ call'[t] # call[t]
           /\ call'[t].op = "update"
           /\ call'[t].job_id \notin DOMAIN jobs)
          => /\ jobs' = jobs
             /\ call'[t].pc = "idle"
             /\ call'[t].ret = NoJob
             /\ lock' = "free"
      ]_vars

\* An update of an unknown id has returned while another job is stored.
C17_Witness ==
    \E t \in Updaters :
        /\ call[t].op = "update" /\ call[t].pc = "idle"
        /\ call[t].kwargs = ErrorKwargs
        /\ call[t].job_id \notin DOMAIN jobs
        /\ \E j \in DOMAIN jobs : jobs[j] = NewJob(j, TxtUpload, "ko", "None")

(* C18: under every interleaving of update, get and create calls a get     *)
(* returns the job as it was before an update or with all of that update's *)
(* fields, never some of them; when an update returns the job is the job   *)
(* it found with exactly its named fields replaced, so no update is lost;  *)
(* a create leaves the other jobs as they were; at most one thread is      *)
(* inside update's loop.                                                   *)
C18_UpdatesAtomic ==
    [][ /\ \A t \in Getters :
              (call'[t] # call[t] /\ call'[t].op = "get" /\ call'[t].job_id \in DOMAIN jobs)
              => /\ \A u \in Updaters :
                       (call[u].pc = "setattr" /\ call[u].job_id = call'[t].job_id)
                       => call'[t].ret \in
                             { call[u].before,
                               Merged(call[u].before, KwargsFields(call[u].kwargs)) }
                 /\ (\A u \in Updaters : call[u].pc # "setattr")
                       => call'[t].ret = jobs[call'[t].job_id]
        /\ \A u \in Updaters :
              (call[u].pc = "setattr" /\ call'[u].pc = "idle")
              => jobs'[call[u].job_id] =
                    Merged(call[u].before, KwargsFields(call[u].kwargs))
        /\ (DOMAIN jobs' # DOMAIN jobs) => \A j \in DOMAIN jobs : jobs'[j] = jobs[j]
        /\ Cardinality({u \in Updaters : call'[u].pc = "setattr"}) <= 1
      ]_vars

\* One thread is inside update with one of three attributes set, another
\* has completed an update of the same job, and the snapshot a get
\* returned in between is the job as the running update found it.
C18_Witness ==
    \E u, w \in Updaters, t \in Getters :
        /\ u # w
        /\ call[u].pc = "setattr" /\ call[u].pos = 2
        /\ call[u].kwargs = ErrorKwargs
        /\ call[w].op = "update" /\ call[w].pc = "idle" /\ call[w].kwargs = RunningKwargs
        /\ call[w].job_id = call[u].job_id
        /\ call[t].op = "get" /\ call[t].job_id = call[u].job_id
        /\ call[t].ret = call[u].before
        /\ call[t].ret.status = "running"
        /\ jobs[call[u].job_id] # call[u].before

----------------------------------------------------------------------------
(* Claims about the chunked upload, checked under SpecUpload (C7 under     *)
(* SpecUploadIO).  A step that changes the state and ends with resp' an    *)
(* upload_complete response is a call of upload_complete.                  *)

IsComplete(r) == r.op = "upload_complete"

\* The indices of range(total_chunks) the client has not sent
NotReceived(upload_id, total_chunks) ==
    {i \in 0..(total_chunks - 1) : i \notin DOMAIN received[upload_id]}

RECURSIVE SentFile(_, _)
\* chunk 0, chunk 1, ... chunk total_chunks-1 as the client last sent them
SentFile(upload_id, total_chunks) ==
    IF total_chunks <= 0 THEN <<>>
    ELSE SentFile(upload_id, total_chunks - 1) \o received[upload_id][total_chunks - 1]

(* C4: upload_complete(u, t), t >= 1, on a session whose chunks 0..t-1     *)
(* have all been received, in whatever order, answers 200 and leaves at    *)
(* the stored path exactly chunk 0, chunk 1, ... chunk t-1.                *)
C4_AssembledInIndexOrder ==
    [][ (/\ IsComplete(resp')
         /\ resp'.arg[1] \in DOMAIN chunkDirs
         /\ resp'.arg[2] >= 1
         /\ NotReceived(resp'.arg[1], resp'.arg[2]) = {})
        => /\ resp'.code = 200
           /\ resp'.out \in DOMAIN uploads'
           /\ uploads'[resp'.out] = SentFile(resp'.arg[1], resp'.arg[2]) ]_vars

\* Three chunks assembled whose order matters.
C4_Witness ==
    /\ IsComplete(resp) /\ resp.code = 200 /\ resp.arg[2] = 3
    /\ received[resp.arg[1]][0] = <<"b", "c">>
    /\ received[resp.arg[1]][1] = <<>>
    /\ received[resp.arg[1]][2] = <<"a">>
    /\ uploads[resp.out] = <<"b", "c", "a">>

(* C5: upload_complete(u, t) on a known session with an index of 0..t-1    *)
(* not received answers 400 naming the smallest such index, and returns no *)
(* stored path.                                                            *)
C5_NamesFirstMissing ==
    [][ (/\ IsComplete(resp')
         /\ resp'.arg[1] \in DOMAIN chunkDirs
         /\ NotReceived(resp'.arg[1], resp'.arg[2]) # {})
        => /\ resp'.code = 400
           /\ resp'.out \in NotReceived(resp'.arg[1], resp'.arg[2])
           /\ \A i \in NotReceived(resp'.arg[1], resp'.arg[2]) : resp'.out <= i ]_vars

\* Index 1 is named although index 0 is present and index 2 is missing too.
C5_Witness ==
    /\ IsComplete(resp) /\ resp.code = 400 /\ resp.arg[2] = 3
    /\ resp.out = 1
    /\ NotReceived(resp.arg[1], 3) = {1, 2}

(* C6: an upload_complete that fails on a missing index leaves no file at  *)
(* the session's final path, so no job is ever created on a file that a    *)
(* successful upload_complete did not write in full.                       *)
C6_NoFileAfterFailedComplete ==
    /\ (IsComplete(resp) /\ resp.code = 400)
          => FinalName(resp.arg[1]) \notin DOMAIN uploads
    /\ \A j \in DOMAIN jobs : jobs[j].file_path.id \notin DOMAIN chunkDirs

(* C7: past the missing-index check upload_complete deletes the session's  *)
(* chunk directory on every exit, also when copying a part fails; only the *)
(* missing-index failure leaves the chunks in place.                       *)
C7_ChunksDeletedOnEveryExit ==
    IsComplete(resp) =>
        /\ (resp.code = 400) => resp.arg[1] \in DOMAIN chunkDirs
        /\ (resp.code \in {200, 500} /\ resp.arg[1] \in DOMAIN received
              /\ NotReceived(resp.arg[1], resp.arg[2]) = {})
              => resp.arg[1] \notin DOMAIN chunkDirs

(* C8: an upload_complete that fails on a missing index leaves the         *)
(* received chunks as they were, and once the missing chunks have arrived  *)
(* the same call answers 200 with exactly the index-ordered chunks in the  *)
(* file, nothing of the failed attempt left in it.                         *)
C8_RetryAfterIncomplete ==
    [][ IsComplete(resp') =>
          /\ (resp'.code = 400) => chunkDirs' = chunkDirs
          /\ (/\ resp'.arg[1] \in DOMAIN chunkDirs
              /\ resp'.arg[1] \in failed
              /\ NotReceived(resp'.arg[1], resp'.arg[2]) = {})
             => /\ resp'.code = 200
                /\ uploads'[resp'.out] = SentFile(resp'.arg[1], resp'.arg[2]) ]_vars

\* A retry that succeeded over the partial file of the failed attempt.
C8_Witness ==
    /\ IsComplete(resp) /\ resp.code = 200 /\ resp.arg[2] = 2
    /\ resp.arg[1] \in failed
    /\ uploads[resp.out] = <<"a", "b", "c">>

(* C19: upload_chunk for an upload id that upload_init never issued        *)
(* answers 404 and stores nothing: no chunk directory is created or        *)
(* changed and no session's parts change.                                  *)
C19_UnknownSessionRejected ==
    [][ (resp'.op = "upload_chunk" /\ resp'.arg \notin issued)
        => /\ resp'.code = 404
           /\ chunkDirs' = chunkDirs
           /\ uploads' = uploads ]_vars

(* C20: sending an index of a session again replaces what is stored for    *)
(* it: after any sequence of upload_chunk calls the part stored for an     *)
(* index is exactly the body of the last call for that index, the parts of *)
(* the other indices are as they were, and the file upload_complete        *)
(* assembles holds each index's last body once, in index order.            *)
C20_LastReceiveWins ==
    [][ /\ \A u \in DOMAIN chunkDirs' :
              /\ DOMAIN chunkDirs'[u].parts = {PartName(i) : i \in DOMAIN received'[u]}
              /\ \A i \in DOMAIN received'[u] :
                    chunkDirs'[u].parts[PartName(i)] = received'[u][i]
        /\ (resp'.op = "upload_chunk" /\ resp'.code = 200 /\ resp'.arg \in DOMAIN chunkDirs)
              => \E i \in Indices :
                    \A k \in DOMAIN received[resp'.arg] \ {i} :
                        chunkDirs'[resp'.arg].parts[PartName(k)] =
                            chunkDirs[resp'.arg].parts[PartName(k)]
        /\ (IsComplete(resp') /\ resp'.code = 200 /\ resp'.arg[1] \in DOMAIN chunkDirs)
              => uploads'[resp'.out] = SentFile(resp'.arg[1], resp'.arg[2])
      ]_vars

\* Index 0 was sent as "a", copied into the file of an upload_complete that
\* then failed on a missing index, and sent again as "bc": the part holds
\* the second body alone.
C20_Witness ==
    \E u \in DOMAIN chunkDirs :
        /\ u \in failed
        /\ FinalName(u) \in DOMAIN uploads
        /\ uploads[FinalName(u)] = <<"a">>
        /\ 0 \in DOMAIN received[u]
        /\ chunkDirs[u].parts[PartName(0)] = <<"b", "c">>
        /\ resp.op = "upload_chunk" /\ resp.code = 200

(* C30: an upload_complete that answers 200 removes the session's chunk    *)
(* directory, meta.txt and parts included; from then on the directory      *)
(* never exists again, every upload_chunk and upload_complete for that id  *)
(* answers 404 and changes no file, and so a session is assembled          *)
(* successfully at most once.                                              *)
C30_CompletedSessionGone ==
    [][ \A u \in issued :
          /\ (IsComplete(resp') /\ resp'.code = 200 /\ resp'.arg[1] = u)
                => /\ u \in DOMAIN chunkDirs
                   /\ u \notin DOMAIN chunkDirs'
          /\ (u \notin DOMAIN chunkDirs)
                => /\ u \notin DOMAIN chunkDirs'
                   /\ ((resp'.op = "upload_chunk" /\ resp'.arg = u)
                        \/ (IsComplete(resp') /\ resp'.arg[1] = u))
                         => /\ resp'.code = 404
                            /\ uploads' = uploads
                            /\ chunkDirs' = chunkDirs
      ]_vars

\* A second upload_complete for a session whose two chunks were assembled
\* is refused; the stored file is still there.
C30_Witness ==
    /\ IsComplete(resp) /\ resp.code = 404
    /\ resp.arg[1] \in issued
    /\ resp.arg[2] = 2
    /\ {0, 1} \subseteq DOMAIN received[resp.arg[1]]
    /\ \E n \in DOMAIN uploads : n.id = resp.arg[1] /\ uploads[n] # <<>>

(* C31: upload_complete(u, t) looks only at the indices 0..t-1: when all   *)
(* of them have been received it answers 200 whatever chunks with index    *)
(* >= t were received too, the stored file is chunk 0 ... chunk t-1 and    *)
(* nothing else, the chunk directory is removed with every part in it, and *)
(* for t = 0 the stored file is empty.                                     *)
C31_OnlyIndicesBelowTotal ==
    [][ (/\ IsComplete(resp')
         /\ resp'.arg[1] \in DOMAIN chunkDirs
         /\ resp'.arg[2] >= 0
         /\ NotReceived(resp'.arg[1], resp'.arg[2]) = {})
        => /\ resp'.code = 200
           /\ resp'.out \in DOMAIN uploads'
           /\ uploads'[resp'.out] = SentFile(resp'.arg[1], resp'.arg[2])
           /\ (resp'.arg[2] = 0) => uploads'[resp'.out] = <<>>
           /\ resp'.arg[1] \notin DOMAIN chunkDirs' ]_vars

\* upload_complete(u, 0) after chunks 0 and 2 were received with bodies:
\* the stored file is empty and the directory is gone.
C31_Witness ==
    /\ IsComplete(resp) /\ resp.code = 200 /\ resp.arg[2] = 0
    /\ {0, 2} \subseteq DOMAIN received[resp.arg[1]]
    /\ received[resp.arg[1]][0] = <<"a">>
    /\ received[resp.arg[1]][2] = <<"b", "c">>
    /\ uploads[resp.out] = <<>>
    /\ resp.arg[1] \notin DOMAIN chunkDirs

----------------------------------------------------------------------------
(* C9: for every text T and max_chars >= 1 the chunks _split_text has      *)
(* appended so far concatenate to T[0:start], and on return to exactly T.  *)
C9_ConcatIsText ==
    /\ sPc = "loop" => Concat(sChunks) = Slice(sText, 0, sStart)
    /\ sPc = "returned" => Concat(sChunks) = sText

\* A returned split whose first chunk was cut after a period, before the
\* window was full.
C9_Witness ==
    /\ sPc = "returned"
    /\ Len(sChunks) >= 2
    /\ \E i \in 1..(Len(sChunks) - 1) :
          /\ Len(sChunks[i]) < sMax
          /\ sChunks[i][Len(sChunks[i])] = Period

(* C10: every chunk _split_text returns has at most max_chars characters,  *)
(* chunks ending at a newline or period-space boundary included.           *)
C10_ChunkWithinMax ==
    \A i \in 1..Len(sChunks) : Len(sChunks[i]) <= sMax

C10_Witness ==
    /\ sPc = "returned"
    /\ \E i \in 1..Len(sChunks) :
          /\ Len(sChunks[i]) = sMax
          /\ sChunks[i][sMax] = NL

\* The end of the window that begins at start when a boundary is accepted
\* from the midpoint on: offset * 2 >= max_chars.
EndFromMidpoint(text, start, max_chars) ==
    LET end0 == Min(Len(text), start + max_chars)
        nl   == RFind(text, <<NL>>, start, end0)
        cut  == IF nl = -1 THEN RFind(text, <<Period, Space>>, start, end0) ELSE nl
    IN  IF cut # -1 /\ 2 * (cut - start) >= max_chars THEN cut + 1 ELSE end0

(* C26: every iteration of _split_text ends its chunk right after the last *)
(* newline of the window, or, when the window has no newline, after the    *)
(* period of its last period-space, provided that boundary's offset from   *)
(* the window start is at least max_chars * 0.5 (the midpoint included),   *)
(* and otherwise at start + max_chars or the end of the text.              *)
C26_CutAcceptedFromMidpoint ==
    [][ (sPc = "loop" /\ sStart' # sStart)
          => sStart' = EndFromMidpoint(sText, sStart, sMax) ]_vars

(* C27: for max_chars >= 1 no chunk _split_text has appended is empty, and *)
(* for the empty text it returns the empty list.                           *)
C27_ChunksNonEmpty ==
    /\ \A i \in 1..Len(sChunks) : sChunks[i] # <<>>
    /\ (sPc = "returned" /\ sText = <<>>) => sChunks = <<>>
    /\ (sPc = "returned" /\ sText # <<>>) => sChunks # <<>>

\* A returned split of a text that begins with a newline, in windows of two
\* or more characters: the boundary at the window start was not taken.
C27_Witness ==
    /\ sPc = "returned"
    /\ sMax >= 2
    /\ Len(sChunks) >= 2
    /\ sText[1] = NL
    /\ Len(sChunks[1]) >= 2

====
